---- MODULE Spec2Model ----
(***************************************************************************)
(* One PostMessage request of the chat service, driving one Completion of  *)
(* either provider adapter (anthropic on Bedrock, vertex), with the        *)
(* external collaborators (auth, datastore, provider, retrieval) as        *)
(* nondeterministic environment steps.                                     *)
(***************************************************************************)
EXTENDS Integers, Sequences, FiniteSets, TLC

\* ------------------------------------------------------------------ bounds
\* Largest token count one provider round trip reports.
MaxTok == 1
\* Largest number of content parts in one provider turn.
MaxParts == 2
\* Largest number of provider replies of one completion that are not one of
\* the two regular turns (one get_sources call, or one final text).
MaxOdd == 1
\* Fixed bound of the anthropic tool loop (loops < 6).
LoopBound == 6
\* Largest number of results one Search call returns.
MaxHits == 3
\* Largest position of a chunk inside its document.
MaxPos == 2

\* ------------------------------------------------------------- text values
\* A text is a sequence of characters; " " is white space.
TxtPadded == <<" ", "a", " ">>
TxtPrompt == <<"q">>
TxtOld == <<"o">>

IsSpace(c) == c = " "

RECURSIVE TrimLeft(_)
TrimLeft(s) ==
    IF s = <<>> THEN <<>>
    ELSE IF IsSpace(Head(s)) THEN TrimLeft(Tail(s)) ELSE s

RECURSIVE TrimRight(_)
TrimRight(s) ==
    IF s = <<>> THEN <<>>
    ELSE IF IsSpace(s[Len(s)]) THEN TrimRight(SubSeq(s, 1, Len(s) - 1)) ELSE s

\* strings.TrimSpace: drops leading and trailing white space.
TrimSpace(s) == TrimRight(TrimLeft(s))

\* ----------------------------------------------------------- content parts
ContentTypeText == "text"
ContentTypeToolUse == "tool_use"
ContentTypeToolResult == "tool_result"
StopEndTurn == "end_turn"

RoleUser == "user"
RoleAssistant == "assistant"

\* ClaudeMessage content part / genai part.  A vertex FunctionCall carries no
\* id (id = 0); a tool_use part carries no text.
TextPart(t) ==
    [type |-> ContentTypeText, text |-> t, id |-> 0, name |-> "", payload |-> <<>>]
ToolUsePart(n, i) ==
    [type |-> ContentTypeToolUse, text |-> <<>>, id |-> i, name |-> n, payload |-> <<>>]
ToolResultPart(n, i, p) ==
    [type |-> ContentTypeToolResult, text |-> <<>>, id |-> i, name |-> n, payload |-> p]

Msg(r, c) == [role |-> r, content |-> c]

\* The tool names a provider may ask for; only get_sources is defined by
\* PostMessage.
ToolNames == {"get_sources", "bogus"}

\* tools := map built from req.Tools (PostMessage registers get_sources only).
Registered == {"get_sources"}

ToolKnownAlways(n) == TRUE

\* callTool, ok := tools[message.Name]
ToolKnown(n) == n \in Registered

\* --------------------------------------------------- the get_sources tool
\* Document ids are strings: sequences of bytes.
DocA == <<1>>
DocB == <<2>>
DocLong == <<1, 2>>
DocIds == {DocA, DocB, DocLong}

\* The < of Go strings: bytewise lexicographic order.
RECURSIVE StrLess(_, _)
StrLess(a, b) ==
    IF b = <<>> THEN FALSE
    ELSE IF a = <<>> THEN TRUE
    ELSE IF Head(a) # Head(b) THEN Head(a) < Head(b)
    ELSE StrLess(Tail(a), Tail(b))

\* search.Result: chunk id, document id, position in the document.
Hit(i, d, p) == [id |-> i, doc |-> d, pos |-> p]

\* The ranked results Search may return: k distinct chunks, the i-th with
\* chunk id i.
RECURSIVE HitListsOfLen(_)
HitListsOfLen(k) ==
    IF k = 0 THEN {<<>>}
    ELSE {Append(hs, Hit(k, d, p)) :
            hs \in HitListsOfLen(k - 1), d \in DocIds, p \in 1..MaxPos}

HitLists == UNION {HitListsOfLen(k) : k \in 0..MaxHits}

LessByPositionOnly(a, b) == a.pos < b.pos

\* The less function handed to sort.Slice: by DocumentId, then by Position.
Less(a, b) ==
    IF a.doc # b.doc THEN StrLess(a.doc, b.doc) ELSE a.pos < b.pos

Orderings(n) == {f \in [1..n -> 1..n] : \A i, j \in 1..n : f[i] = f[j] => i = j}

\* sort.Slice: the slice reordered so that no element is less than one before
\* it; the order of elements neither of which is less than the other is not
\* specified (the sort is not stable).
SortSlice(hs) ==
    {[i \in 1..Len(hs) |-> hs[f[i]]] :
        f \in {g \in Orderings(Len(hs)) :
                 \A i, j \in 1..Len(hs) : i < j => ~Less(hs[g[j]], hs[g[i]])}}

\* A JSON text is a sequence of tokens: punctuation, member names, strings
\* (sequences of characters) and numbers.
Punct(c) == [k |-> c, s |-> "", v |-> <<>>]
Key(name) == [k |-> "key", s |-> name, v |-> <<>>]
Str(chars) == [k |-> "str", s |-> "", v |-> chars]
Num(n) == [k |-> "num", s |-> "", v |-> <<n>>]

\* The JSON object of one search result.
MarshalItem(h) ==
    <<Punct("{"), Key("id"), Str(<<h.id>>), Key("doc"), Str(h.doc),
      Key("pos"), Num(h.pos), Punct("}")>>

RECURSIVE MarshalItems(_)
MarshalItems(items) ==
    IF items = <<>> THEN <<>>
    ELSE MarshalItem(Head(items)) \o MarshalItems(Tail(items))

\* json.Marshal(Sources{Items: sources}): an object with the one member
\* "sources", the list of results.
Marshal(items) ==
    <<Punct("{"), Key("sources"), Punct("[")>> \o MarshalItems(items)
        \o <<Punct("]"), Punct("}")>>

\* The tokens of the first JSON object of a list, and of the rest of the list.
ObjectEnd(toks) == CHOOSE i \in DOMAIN toks :
    toks[i].k = "}" /\ \A j \in 1..(i - 1) : toks[j].k # "}"
FirstObject(toks) == SubSeq(toks, 1, ObjectEnd(toks))
AfterFirstObject(toks) == SubSeq(toks, ObjectEnd(toks) + 1, Len(toks))

\* The value token of the member `name` of a flat JSON object.
Member(toks, name) ==
    toks[(CHOOSE i \in DOMAIN toks : toks[i].k = "key" /\ toks[i].s = name) + 1]

\* The tokens between the brackets of the "sources" member.
ListTokens(json) == SubSeq(json, 4, Len(json) - 2)

\* float64 of a JSON number: exact for every integer of magnitude up to 2^53,
\* which covers every number of the model.
Float64(n) == n

UnmarshalMapEmpty(json) == <<[key |-> "sources", val |-> <<>>]>>

\* The generic value of an object of a list: strings stay strings, numbers
\* become float64.
RECURSIVE GenericItems(_)
GenericItems(toks) ==
    IF toks = <<>> THEN <<>>
    ELSE LET o == FirstObject(toks) IN
         <<[id |-> Member(o, "id").v, doc |-> Member(o, "doc").v,
            pos |-> Float64(Member(o, "pos").v[1])]>>
         \o GenericItems(AfterFirstObject(toks))

\* json.Unmarshal([]byte(resultStr), &results) with results a
\* map[string]interface{}: the members of the object, by name.
UnmarshalMap(json) == <<[key |-> "sources", val |-> GenericItems(ListTokens(json))]>>

\* What a tool handler returns: (string, error).
ToolErr == [ok |-> FALSE, json |-> <<>>]
ToolOut(j) == [ok |-> TRUE, json |-> j]

\* The Call function of get_sources: the prompt argument, Search, the usage
\* record (its error dropped), the sort and the marshalling.
GetSourcesCall(hasPrompt, searchOk, usageOk, hits) ==
    IF ~hasPrompt THEN {ToolErr}
    ELSE IF ~searchOk THEN {ToolErr}
    ELSE {ToolOut(Marshal(sorted)) : sorted \in SortSlice(hits)}

\* The results Search returns to the first get_sources call of a completion.
SearchHits ==
    <<Hit(1, DocB, 1), Hit(2, DocA, 2), Hit(3, DocA, 1), Hit(4, DocLong, 1)>>


\* ---------------------------------------------------------------- messages
\* llm.Message: a role and a text.
LMsg(r, t) == [Role |-> r, Content |-> t]

RoleModel == "model"

\* The thread the datastore holds before the request.
PriorThread == <<LMsg(RoleUser, TxtOld), LMsg(RoleAssistant, TxtOld)>>

\* transformMessages: one ClaudeMessage with one text part per llm.Message.
RECURSIVE transformMessages(_)
transformMessages(ms) ==
    IF ms = <<>> THEN <<>>
    ELSE <<Msg(Head(ms).Role, <<TextPart(Head(ms).Content)>>)>>
         \o transformMessages(Tail(ms))

\* transformToHistory: one genai.Content per llm.Message, the assistant role
\* renamed to "model".
RECURSIVE transformToHistory(_)
transformToHistory(ms) ==
    IF ms = <<>> THEN <<>>
    ELSE <<Msg(IF Head(ms).Role = RoleAssistant THEN RoleModel ELSE RoleUser,
               <<TextPart(Head(ms).Content)>>)>>
         \o transformToHistory(Tail(ms))

\* ------------------------------------------------------- provider replies
\* Token counts one round trip may report (input, output).
UsageDeltas == {<<0, 0>>, <<MaxTok, MaxTok + 1>>}

\* The usage a regular turn reports.
NominalUsage == <<MaxTok, MaxTok + 1>>

\* Ids the provider gives the tool_use parts of its n-th reply: unique.
PartId(n, i) == 10 * n + i

PartChoices(n, i) ==
    {TextPart(TxtPadded)} \cup {ToolUsePart(nm, PartId(n, i)) : nm \in ToolNames}

\* Every content of exactly k parts.
RECURSIVE ContentsOfLen(_, _)
ContentsOfLen(n, k) ==
    IF k = 0 THEN {<<>>}
    ELSE {Append(c, p) : c \in ContentsOfLen(n, k - 1), p \in PartChoices(n, k)}

\* Every content of at most MaxParts parts.
Contents(n) == UNION {ContentsOfLen(n, k) : k \in 0..MaxParts}

NoReply ==
    [cands |-> 0, stop |-> "", content |-> <<>>, usage |-> <<0, 0>>,
     hasUsage |-> FALSE]

\* A ClaudeResponse: stop reason, content parts, usage (always present; the
\* counts are those of a regular turn).
ClaudeReplies(n) ==
    {[cands |-> 1, stop |-> s, content |-> c, usage |-> NominalUsage,
      hasUsage |-> TRUE] :
        s \in {ContentTypeToolUse, StopEndTurn}, c \in Contents(n)}

\* A genai.GenerateContentResponse: zero or one candidate, its parts, and
\* usage metadata that may be missing.
VertexReplies(n) ==
    {[cands |-> k, stop |-> "", content |-> c, usage |-> u, hasUsage |-> h] :
        k \in {1}, c \in Contents(n), u \in UsageDeltas, h \in BOOLEAN}
    \cup {[cands |-> 0, stop |-> "", content |-> <<>>, usage |-> u, hasUsage |-> TRUE] :
        u \in UsageDeltas}

\* The two regular turns of a conversation, with their usage: one
\* get_sources call, and the final text.
RegularTurns(n) ==
    {[cands |-> 1, stop |-> ContentTypeToolUse,
      content |-> <<ToolUsePart("get_sources", PartId(n, 1))>>,
      usage |-> NominalUsage, hasUsage |-> TRUE],
     [cands |-> 1, stop |-> StopEndTurn, content |-> <<TextPart(TxtPadded)>>,
      usage |-> NominalUsage, hasUsage |-> TRUE]}

\* The replies the provider may give to the n-th call, having given `o`
\* replies that are not regular so far.
ClaudeAnswers(n, o) == IF o < MaxOdd THEN ClaudeReplies(n) ELSE RegularTurns(n)

\* The usage delta of a reply: zero when the vendor sent no usage metadata.
Delta(r) == IF r.hasUsage THEN r.usage ELSE <<0, 0>>

\* ------------------------------------------------------------------- state
VARIABLES
    prompt,      \* the pb.Prompt of this request
    req,         \* the llm.CompletionRequest PostMessage hands to Completion
    pc,          \* position in PostMessage / Completion
    thread,      \* the datastore.Thread PostMessage works on
    db,          \* the messages of the persisted thread
    messages,    \* request.Messages (anthropic) / history (vertex)
    response,    \* the provider reply being processed
    cursor,      \* index of the content part the tool loop is at
    loops,       \* the anthropic loop counter
    usage,       \* cumulative usage (input, output)
    result,      \* what Completion returned
    ret,         \* what PostMessage returned
    trace,       \* the calls made to external collaborators, in order
    usageSum,    \* sum of the usage the provider reported, over all round trips
    cancelled,   \* the request context was cancelled
    odd,         \* how many provider replies were not regular turns
    tool,        \* one call of the get_sources handler taken alone
    peer         \* a second PostMessage request served at the same time

mainVars == <<prompt, req, pc, thread, db, messages, response, cursor, loops, usage,
              result, ret, trace, usageSum, cancelled, odd, peer>>

vars == <<prompt, req, pc, thread, db, messages, response, cursor, loops, usage,
          result, ret, trace, usageSum, cancelled, odd, tool, peer>>

ModelIds == {"anthropic", "vertex", "nomodel"}
ThreadIds == {"", "t1", "bad"}

Prompts ==
    [collectionOk : BOOLEAN, hasModelOps : BOOLEAN, hasRetrievalOps : BOOLEAN,
     modelId : ModelIds, threadId : ThreadIds]

NoResult ==
    [kind |-> "none", text |-> <<>>, usage |-> <<0, 0>>, messages |-> <<>>,
     err |-> ""]
\* No request has been built yet.
NoRequest == [Messages |-> <<>>, Tools |-> {}]

NoRet == [outcome |-> "running", err |-> "", completion |-> <<>>, sources |-> <<>>]

\* No handler call is being looked at.
ToolIdle ==
    [pc |-> "idle", hasPrompt |-> FALSE, searchOk |-> FALSE, usageOk |-> FALSE,
     found |-> <<>>, out |-> ToolErr, searches |-> 0, usages |-> 0]

\* One call to an external collaborator: which, the tool named, the id of the
\* invocation, whether the call succeeded, and (provider round trips) the
\* conversation the call carried.
Ev(e, n, i, o) == [ev |-> e, name |-> n, id |-> i, ok |-> o, sent |-> <<>>]

\* No second request is being served.
PeerIdle ==
    [pc |-> "idle", threadId |-> "", thread |-> [id |-> "", messages |-> <<>>],
     result |-> NoResult, ret |-> NoRet]

\* The threads the datastore holds before the requests; "new" and "new2"
\* stand for the ids uuid.New() gives the threads the requests create.
StoredThreads ==
    [t1 |-> PriorThread, t2 |-> PriorThread, new |-> <<>>, new2 |-> <<>>]

\* userId, err := service.Auth.VerifyFunding(ctx): the caller.
UserId == "u1"

\* collectionId, err := uuid.Parse(prompt.CollectionId)
CollectionId == "c1"

\* The collection the stored threads were created in.
StoredCollection == "c0"

\* var thread *datastore.Thread
NoThread == [id |-> "", userId |-> "", collectionId |-> "", messages |-> <<>>]

\* The state before PostMessage runs, for a prompt of ps, with o provider
\* replies counted as not regular, and a second request of qs.
Start(ps, o, qs) ==
    /\ prompt \in ps
    /\ peer \in qs
    /\ req = NoRequest
    /\ pc = "PostMessage"
    /\ thread = NoThread
    /\ db = StoredThreads
    /\ messages = <<>>
    /\ response = NoReply
    /\ cursor = 0
    /\ loops = 0
    /\ usage = <<0, 0>>
    /\ result = NoResult
    /\ ret = NoRet
    /\ trace = <<>>
    /\ usageSum = <<0, 0>>
    /\ cancelled = FALSE
    /\ odd = o

MainInit(ps) == Start(ps, 0, {PeerIdle})

Init ==
    /\ MainInit(Prompts)
    /\ tool = ToolIdle

Add(u, d) == <<u[1] + d[1], u[2] + d[2]>>

\* PostMessage returns an error.
Fail(e) ==
    /\ pc' = "Done"
    /\ ret' = [outcome |-> "error", err |-> e, completion |-> <<>>,
               sources |-> <<>>]

\* The goroutine panics (nil dereference, index out of range).
Panic ==
    /\ pc' = "Done"
    /\ ret' = [outcome |-> "panic", err |-> "", completion |-> <<>>,
               sources |-> <<>>]


Goto(p) == pc' = p /\ UNCHANGED ret

Res(k, t, u, e) ==
    [kind |-> k, text |-> t, usage |-> u, messages |-> <<>>, err |-> e]

\* Completion returns (nil, err).
CompletionErr(e) == Res("err", <<>>, <<0, 0>>, e)

\* Completion returns (nil, nil).
CompletionNil == Res("nil", <<>>, <<0, 0>>, "")

\* Completion returns (&CompletionResponse{Message, Usage}, nil); the Messages
\* field is left unset.
CompletionOk(t, u) == Res("ok", t, u, "")

reqMessagesPromptOnly == <<LMsg(RoleUser, TxtPrompt)>>

\* messages := append(thread.Messages, &llm.Message{Role: user, Content: prompt})
reqMessages == Append(thread.messages, LMsg(RoleUser, TxtPrompt))

\* request := &llm.CompletionRequest{Messages: messages, ..., Tools: [get_sources]}
Request == [Messages |-> reqMessages, Tools |-> {"get_sources"}]

\* A call that takes the request context fails once the context is cancelled.
CtxOutcomes == IF cancelled THEN {FALSE} ELSE BOOLEAN

ProviderCalls == Cardinality({i \in DOMAIN trace : trace[i].ev = "provider"})
ToolCalls == Cardinality({i \in DOMAIN trace : trace[i].ev = "tool"})
StoreCalls == Cardinality({i \in DOMAIN trace : trace[i].ev = "store"})

\* ------------------------------------------------------------ PostMessage
IntegrityErrorNone(p) == ""

\* The integrity checks on the prompt, in the order PostMessage makes them:
\* the error of the first that fails, "" when all pass.
IntegrityError(p) ==
    IF ~p.collectionOk THEN "invalid collection id"
    ELSE IF ~p.hasModelOps THEN "options missing"
    ELSE IF ~p.hasRetrievalOps THEN "retrieval options missing"
    ELSE IF p.modelId \notin {"anthropic", "vertex"} THEN "model not found"
    ELSE ""

FundingFailedNever(ok) == FALSE

\* userId, err := service.Auth.VerifyFunding(ctx); if err != nil
FundingFailed(ok) == ~ok

\* VerifyFunding and the integrity checks.
PM_Verify ==
    /\ pc = "PostMessage"
    /\ UNCHANGED <<tool, peer>>
    /\ \E ok \in CtxOutcomes :
         /\ trace' = Append(trace, Ev("auth", "", 0, ok))
         /\ IF FundingFailed(ok) THEN Fail("funding")
            ELSE IF IntegrityError(prompt) # ""
            THEN Fail(IntegrityError(prompt))
            ELSE Goto("Thread")
    /\ UNCHANGED <<prompt, req, thread, db, messages, response, cursor, loops, usage,
                   result, usageSum, cancelled, odd>>

\* Get the thread messages: load the thread or create a new one.
ThreadIdGiven(p) == p.threadId # ""

\* threadId, err := uuid.Parse(prompt.ThreadId)
ThreadIdParses(id) == id # "bad"

NewThreadUnbound == [NoThread EXCEPT !.id = "new"]

\* thread = &datastore.Thread{Id: uuid.New(), UserId: userId,
\* CollectionId: collectionId, Timestamp: time.Now()}
NewThread ==
    [id |-> "new", userId |-> UserId, collectionId |-> CollectionId,
     messages |-> <<>>]

\* service.Database.GetThread(ctx, userId, threadId): the thread of that id
\* that the user owns.
GetThread(user, id) ==
    [id |-> id, userId |-> user, collectionId |-> StoredCollection,
     messages |-> db[id]]

\* The GetThread call, with the user it is made for.
GetThreadCall(user, id, ok) == [Ev("getthread", id, 0, ok) EXCEPT !.sent = <<user>>]

PM_Thread ==
    /\ pc = "Thread"
    /\ UNCHANGED <<tool, peer>>
    /\ IF ~ThreadIdGiven(prompt)
       THEN /\ thread' = NewThread
            /\ Goto("Completion")
            /\ UNCHANGED trace
       ELSE IF ~ThreadIdParses(prompt.threadId)
       THEN /\ Fail("invalid thread id")
            /\ UNCHANGED <<thread, trace>>
       ELSE \E ok \in CtxOutcomes :
            /\ trace' = Append(trace, GetThreadCall(UserId, prompt.threadId, ok))
            /\ IF ok
               THEN thread' = GetThread(UserId, prompt.threadId)
                    /\ Goto("Completion")
               ELSE Fail("get thread") /\ UNCHANGED thread
    /\ UNCHANGED <<prompt, req, db, messages, response, cursor, loops, usage,
                   result, usageSum, cancelled, odd>>

StoreReachedAlways(res) == TRUE

StoreFailedNever(ok) == FALSE

\* err = service.Database.StoreThread(ctx, thread); if err != nil
StoreFailed(ok) == ~ok

StoreKeyShared(th) == "t1"

StoreKeyOther(th) == "new"

\* service.Database.StoreThread(ctx, thread): the thread is stored under its
\* own id.
StoreKey(th) == th.id

\* if err != nil { return nil, err }: StoreThread is reached only when
\* Completion returned no error.
StoreReached(res) == res.kind # "err"

\* Completion returns res to PostMessage, the calls made so far being tr:
\* the error check, thread.Messages = response.Messages, and StoreThread.
Returned(res, tr) ==
    /\ result' = res
    /\ IF ~StoreReached(res)
       THEN Fail(res.err) /\ trace' = tr /\ UNCHANGED <<thread, db>>
       ELSE IF res.kind = "nil"
       THEN Panic /\ trace' = tr /\ UNCHANGED <<thread, db>>
       ELSE /\ thread' = [thread EXCEPT !.messages = res.messages]
            /\ \E ok \in CtxOutcomes :
                 /\ trace' = Append(tr, Ev("store", thread.id, 0, ok))
                 /\ IF ~StoreFailed(ok)
                    THEN db' = [db EXCEPT ![StoreKey(thread)] = res.messages]
                         /\ Goto("Finish")
                    ELSE Fail("store thread") /\ UNCHANGED db

\* Completion panics; nothing of PostMessage runs after it.
Panics(tr) ==
    /\ Panic
    /\ trace' = tr
    /\ UNCHANGED <<result, thread, db>>

\* Completion goes on at position p.
Continue(p, tr) ==
    /\ Goto(p)
    /\ trace' = tr
    /\ UNCHANGED <<result, thread, db>>

\* ------------------------------------------------------- provider and tools
\* One provider round trip that answers r.
RoundTrip(r) ==
    /\ odd' = IF r \in RegularTurns(ProviderCalls + 1) \/ prompt.modelId # "anthropic"
              THEN odd ELSE odd + 1
    /\ usageSum' = Add(usageSum, Delta(r))
    /\ response' = r

\* One provider round trip that fails.
RoundTripFails == UNCHANGED <<usageSum, response, odd>>

\* The trace after a provider round trip that carried the conversation
\* `hist` and succeeded (ok) or failed.
Provider(ok, hist) ==
    Append(trace, [Ev("provider", "", 0, ok) EXCEPT !.sent = hist])

InvokeFailedNever(ok) == FALSE

\* response, err := client.invokeRequest(...); if err != nil
InvokeFailed(ok) == ~ok

\* What a tool handler returns: an error or a JSON string.  The handler
\* passes the request context on to the retrieval service.
HandlerOutcomes ==
    UNION {GetSourcesCall(hasPrompt, searchOk, usageOk, SearchHits) :
             hasPrompt \in BOOLEAN, searchOk \in BOOLEAN, usageOk \in BOOLEAN}

\* The results Search returns to the later get_sources calls of a
\* completion: one chunk again, and one new chunk.
LaterHits == <<Hit(5, DocB, 2), Hit(3, DocA, 1)>>

HandlerOutcomesLater ==
    UNION {GetSourcesCall(hasPrompt, searchOk, usageOk, LaterHits) :
             hasPrompt \in BOOLEAN, searchOk \in BOOLEAN, usageOk \in BOOLEAN}

\* The same once the context is cancelled: Search and InsertModelUsage fail.
HandlerOutcomesCancelled ==
    UNION {GetSourcesCall(hasPrompt, FALSE, FALSE, SearchHits) : hasPrompt \in BOOLEAN}

CallOutcomes ==
    IF cancelled THEN HandlerOutcomesCancelled
    ELSE IF ToolCalls = 0 THEN HandlerOutcomes
    ELSE HandlerOutcomesLater

HandlerFailedNever(out) == FALSE

\* result, err := callTool(ctx, message.Input); if err != nil
HandlerFailed(out) == ~out.ok

\* --------------------------------------------------- anthropic Completion
LoopContinuesUnbounded(r, l) == r.stop = ContentTypeToolUse

\* for response.StopReason == ContentTypeToolUse && loops < 6
LoopContinues(r, l) == r.stop = ContentTypeToolUse /\ l < LoopBound

FinalTextUntrimmed(c) == c[1].text

\* Content: strings.TrimSpace(response.Content[0].Text)
FinalText(c) == TrimSpace(c[1].text)

\* The loop test on reply r with counter l and usage u, and either the start
\* of an iteration or the return that follows the loop.
A_Loop(r, l, u, ms, tr) ==
    IF LoopContinues(r, l)
    THEN /\ messages' = Append(ms, Msg(RoleAssistant, r.content))
         /\ cursor' = 1
         /\ Continue("A_Tools", tr)
    ELSE /\ messages' = ms
         /\ UNCHANGED cursor
         /\ IF Len(r.content) = 0
            THEN Panics(tr)
            ELSE Returned(CompletionOk(FinalText(r.content), u), tr)

\* The first invokeRequest of Completion; invokeRequest runs under
\* context.Background(), so cancelling the request does not fail it.
A_Invoke ==
    /\ pc = "Completion"
    /\ UNCHANGED <<tool, peer>>
    /\ prompt.modelId = "anthropic"
    /\ req' = Request
    /\ loops' = 0
    /\ \E ok \in BOOLEAN :
         IF InvokeFailed(ok)
         THEN /\ RoundTripFails
              /\ Returned(CompletionErr("provider"), Provider(ok, transformMessages(req'.Messages)))
              /\ messages' = transformMessages(req'.Messages)
              /\ UNCHANGED <<usage, cursor>>
         ELSE \E r \in ClaudeAnswers(ProviderCalls + 1, odd) :
              /\ RoundTrip(r)
              /\ usage' = r.usage
              /\ A_Loop(r, 0, r.usage, transformMessages(req'.Messages), Provider(ok, transformMessages(req'.Messages)))
    /\ UNCHANGED <<prompt, cancelled>>

TurnFinishedEarly(c, cur) == cur > 1 \/ cur > Len(c)

\* for _, message := range response.Content: the loop over the parts of the
\* turn is over once every part has been visited.
TurnFinished(c, cur) == cur > Len(c)

\* One content part of the turn: a tool_use part is looked up and called,
\* and its result appended.
A_Tools ==
    /\ pc = "A_Tools"
    /\ UNCHANGED <<tool, peer>>
    /\ ~TurnFinished(response.content, cursor)
    /\ LET message == response.content[cursor] IN
       IF message.type # ContentTypeToolUse
       THEN /\ cursor' = cursor + 1
            /\ UNCHANGED <<pc, messages, result, ret, trace, thread, db>>
       ELSE IF ~ToolKnown(message.name)
       THEN /\ Returned(CompletionErr("unknown tool"), trace)
            /\ UNCHANGED <<cursor, messages>>
       ELSE \E out \in CallOutcomes :
            LET tr == Append(trace, Ev("tool", message.name, message.id, out.ok)) IN
            IF HandlerFailed(out)
            THEN /\ Returned(CompletionErr("tool"), tr)
                 /\ UNCHANGED <<cursor, messages>>
            ELSE /\ messages' = Append(messages,
                        Msg(RoleUser, <<ToolResultPart("", message.id, out.json)>>))
                 /\ cursor' = cursor + 1
                 /\ Continue("A_Tools", tr)
    /\ UNCHANGED <<prompt, req, response, loops, usage, usageSum, cancelled, odd>>

\* The invokeRequest that ends one loop iteration.
A_Invoke2 ==
    /\ pc = "A_Tools"
    /\ UNCHANGED <<tool, peer>>
    /\ TurnFinished(response.content, cursor)
    /\ \E ok \in BOOLEAN :
         IF InvokeFailed(ok)
         THEN /\ RoundTripFails
              /\ Returned(CompletionErr("provider"), Provider(ok, messages))
              /\ UNCHANGED <<usage, loops, messages, cursor>>
         ELSE \E r \in ClaudeAnswers(ProviderCalls + 1, odd) :
              /\ RoundTrip(r)
              /\ usage' = <<usage[1] + r.usage[1], usage[2] + r.usage[2]>>
              /\ loops' = loops + 1
              /\ A_Loop(r, loops', usage', messages, Provider(ok, messages))
    /\ UNCHANGED <<prompt, req, cancelled>>

\* ------------------------------------------------------ vertex Completion
VertexRegistered == {"get_sources"}

\* client.callTool: looks the function up by name among the client's tools.
VertexToolKnown(n) == n \in VertexRegistered

ChatHistoryEmpty(history) == <<>>

\* chat.History = history[:len(history)-1]
ChatHistory(history) == SubSeq(history, 1, Len(history) - 1)

\* chat.SendMessage(ctx, parts...): the session sends its History followed by
\* one user content made of the parts; the parts are those of the last
\* element of history.
VertexSent(history) == Append(ChatHistory(history), history[Len(history)])

VertexUsageUnchecked(gen) == gen.usage

\* if gen.UsageMetadata != nil { ... }: the token counts of the reply, zero
\* when it carries no usage metadata.
VertexUsage(gen) == IF gen.hasUsage THEN gen.usage ELSE <<0, 0>>

\* Parts: []genai.Part{fun}: only the first part of the turn is kept.
FirstPartOnly(c) == <<c[1]>>

NoMessagesNever(rq) == FALSE

\* if len(req.Messages) == 0
NoMessages(rq) == Len(rq.Messages) = 0

\* Completion called with the request rq: the message check, the first
\* SendMessage, the empty-response check and the function-call test.
VertexCompletion(rq) ==
    /\ req' = rq
    /\ IF NoMessages(rq)
       THEN /\ Returned(CompletionErr("no messages"), trace)
            /\ UNCHANGED <<messages, response, usage, usageSum, odd>>
       ELSE IF Len(transformToHistory(rq.Messages)) = 0
       THEN \* chat.History = history[:len(history)-1] is out of range
            /\ Panics(trace)
            /\ UNCHANGED <<messages, response, usage, usageSum, odd>>
       ELSE \E ok \in CtxOutcomes :
            IF InvokeFailed(ok)
            THEN /\ RoundTripFails
                 /\ Returned(CompletionErr("provider"), Provider(ok, VertexSent(transformToHistory(rq.Messages))))
                 /\ messages' = transformToHistory(rq.Messages)
                 /\ UNCHANGED usage
            ELSE \E gen \in VertexReplies(ProviderCalls + 1) :
                 /\ RoundTrip(gen)
                 /\ IF gen.cands = 0 \/ Len(gen.content) = 0
                    THEN /\ Returned(CompletionNil, Provider(ok, VertexSent(transformToHistory(rq.Messages))))
                         /\ messages' = transformToHistory(rq.Messages)
                         /\ UNCHANGED usage
                    ELSE /\ usage' = VertexUsage(gen)
                         /\ IF gen.content[1].type = ContentTypeToolUse
                            THEN /\ messages' = Append(transformToHistory(rq.Messages),
                                        Msg(RoleModel, FirstPartOnly(gen.content)))
                                 /\ Continue("V_CallTool", Provider(ok, VertexSent(transformToHistory(rq.Messages))))
                            ELSE /\ messages' = transformToHistory(rq.Messages)
                                 /\ Returned(CompletionOk(gen.content[1].text, usage'),
                                             Provider(ok, VertexSent(transformToHistory(rq.Messages))))

\* PostMessage calls the vertex adapter with the request it built.
V_Send ==
    /\ pc = "Completion"
    /\ UNCHANGED <<tool, peer>>
    /\ prompt.modelId = "vertex"
    /\ VertexCompletion(Request)
    /\ UNCHANGED <<prompt, cursor, loops, cancelled>>

\* callTool, the parse of its result and the function response.
V_CallTool ==
    /\ pc = "V_CallTool"
    /\ UNCHANGED <<tool, peer>>
    /\ LET fun == response.content[1] IN
       IF ~VertexToolKnown(fun.name)
       THEN /\ Returned(CompletionErr("unknown tool"), trace)
            /\ UNCHANGED messages
       ELSE \E out \in CallOutcomes :
            LET tr == Append(trace, Ev("tool", fun.name, fun.id, out.ok)) IN
            IF HandlerFailed(out)
            THEN /\ Returned(CompletionErr("tool"), tr)
                 /\ UNCHANGED messages
            ELSE /\ messages' = Append(messages,
                        Msg(RoleUser,
                            <<ToolResultPart(fun.name, 0, UnmarshalMap(out.json))>>))
                 /\ Continue("V_Send2", tr)
    /\ UNCHANGED <<prompt, req, response, cursor, loops, usage, usageSum, cancelled, odd>>

\* The second SendMessage, carrying the function response, and the final text.
V_Send2 ==
    /\ pc = "V_Send2"
    /\ UNCHANGED <<tool, peer>>
    /\ \E ok \in CtxOutcomes :
         IF InvokeFailed(ok)
         THEN /\ RoundTripFails
              /\ Returned(CompletionErr("provider"), Provider(ok, VertexSent(messages)))
              /\ UNCHANGED usage
         ELSE \E gen \in VertexReplies(ProviderCalls + 1) :
              /\ RoundTrip(gen)
              /\ usage' = Add(usage, VertexUsage(gen))
              /\ IF gen.cands = 0 \/ Len(gen.content) = 0
                 THEN Panics(Provider(ok, VertexSent(messages)))
                 ELSE IF gen.content[1].type = ContentTypeText
                 THEN Returned(CompletionOk(gen.content[1].text, usage'), Provider(ok, VertexSent(messages)))
                 ELSE Returned(CompletionNil, Provider(ok, VertexSent(messages)))
    /\ UNCHANGED <<prompt, req, messages, cursor, loops, cancelled>>

\* ------------------------------------------------- PostMessage, continued
\* The evidence items a message of the history carries.
ItemsOf(m) == IF "Sources" \in DOMAIN m THEN m.Sources ELSE <<>>

\* The evidence items of all messages, in the order of the history.
RECURSIVE Collect(_)
Collect(ms) ==
    IF ms = <<>> THEN <<>> ELSE ItemsOf(Head(ms)) \o Collect(Tail(ms))

\* The items whose chunk id is not in `seen` and has not come earlier.
RECURSIVE DedupFirst(_, _)
DedupFirst(items, seen) ==
    IF items = <<>> THEN <<>>
    ELSE IF Head(items).id \in seen THEN DedupFirst(Tail(items), seen)
    ELSE <<Head(items)>> \o DedupFirst(Tail(items), seen \cup {Head(items).id})

\* Insert x behind every element that is not after it.
RECURSIVE InsertSorted(_, _)
InsertSorted(x, sorted) ==
    IF sorted = <<>> THEN <<x>>
    ELSE IF Less(x, Head(sorted)) THEN <<x>> \o sorted
    ELSE <<Head(sorted)>> \o InsertSorted(x, Tail(sorted))

\* The items by document id, then position, equal ones in their old order.
RECURSIVE StableSort(_)
StableSort(items) ==
    IF items = <<>> THEN <<>>
    ELSE InsertSorted(items[Len(items)], StableSort(SubSeq(items, 1, Len(items) - 1)))

\* pb.Source of an evidence item, its name not yet resolved.
Source(h) == [id |-> h.id, doc |-> h.doc, pos |-> h.pos, name |-> ""]

\* getSources: the sources of the evidence items found in the history.
getSources(ms) ==
    LET items == StableSort(DedupFirst(Collect(ms), {})) IN
    [i \in DOMAIN items |-> Source(items[i])]

\* uuid.Parse(source.DocumentId): DocLong is not a UUID.
IsUuid(d) == d \in {DocA, DocB}

\* The name the datastore holds for a document.
NameOf(d) == IF d = DocA THEN "a.pdf" ELSE "b.pdf"

\* The loop over the sources: a source whose id does not parse, or whose
\* GetDocumentName call fails (found[i] false), is skipped and keeps its
\* empty name.
Named(srcs, found) ==
    [i \in DOMAIN srcs |->
        IF IsUuid(srcs[i].doc) /\ found[i]
        THEN [srcs[i] EXCEPT !.name = NameOf(srcs[i].doc)]
        ELSE srcs[i]]

\* The GetDocumentName calls of the loop from source i on.
RECURSIVE LookupEvents(_, _, _)
LookupEvents(srcs, found, i) ==
    IF i > Len(srcs) THEN <<>>
    ELSE (IF IsUuid(srcs[i].doc) THEN <<Ev("docname", "", srcs[i].id, found[i])>>
          ELSE <<>>)
         \o LookupEvents(srcs, found, i + 1)

\* The usage record (its error dropped), the document names and the
\* returned message.
PM_Finish ==
    /\ pc = "Finish"
    /\ UNCHANGED <<tool, peer>>
    /\ LET srcs == getSources(result.messages) IN
       \E usageOk \in CtxOutcomes, found \in [DOMAIN srcs -> CtxOutcomes] :
         /\ trace' = Append(trace, Ev("usage", "", 0, usageOk))
                        \o LookupEvents(srcs, found, 1)
         /\ IF Len(thread.messages) = 0
            THEN Panic
            ELSE /\ pc' = "Done"
                 /\ ret' = [outcome |-> "ok", err |-> "",
                            completion |-> thread.messages[Len(thread.messages)].Content,
                            sources |-> Named(srcs, found)]
    /\ UNCHANGED <<prompt, req, thread, db, messages, response, cursor, loops, usage,
                   result, usageSum, cancelled, odd>>

\* The caller cancels the request context while the completion is running.
Cancel ==
    /\ pc \in {"PostMessage", "Thread", "Completion", "A_Tools", "V_CallTool",
               "V_Send2"}
    /\ ~cancelled
    /\ cancelled' = TRUE
    /\ UNCHANGED <<prompt, req, pc, thread, db, messages, response, cursor, loops,
                   usage, result, ret, trace, usageSum, odd, tool, peer>>

Next ==
    \/ PM_Verify
    \/ PM_Thread
    \/ A_Invoke
    \/ A_Tools
    \/ A_Invoke2
    \/ V_Send
    \/ V_CallTool
    \/ V_Send2
    \/ PM_Finish

\* One request whose context is never cancelled.
Spec == Init /\ [][Next]_vars

\* A request that continues a thread; what the thread holds takes no part in
\* the control flow of the completion.
InitFair ==
    /\ MainInit({p \in Prompts : p.threadId # ""})
    /\ tool = ToolIdle

\* The goroutine that serves the request keeps running, and every call it
\* makes to a collaborator returns.
SpecFair == InitFair /\ [][Next]_vars /\ WF_vars(Next)

\* ------------------------------------------------- two requests at a time
\* The second request: it passed the integrity checks and names one of the
\* stored threads, or none.
PeerRequests ==
    {[PeerIdle EXCEPT !.pc = "Thread", !.threadId = t] : t \in {"", "t1", "t2"}}

\* The first request: on the anthropic adapter, with a provider that gives
\* regular turns only, on the stored thread t1 or on a new thread.
TwoPrompts ==
    {p \in Prompts : IntegrityError(p) = "" /\ p.modelId = "anthropic"
                        /\ p.threadId # "bad"}

InitTwo ==
    /\ Start(TwoPrompts, MaxOdd, PeerRequests)
    /\ tool = ToolIdle

\* The second request returns an error.
PeerFails(q, e) == [q EXCEPT !.pc = "Done", !.ret = [NoRet EXCEPT !.outcome = "error", !.err = e]]

\* The second request gets its thread: loads it or creates a new one.
P_Thread ==
    /\ peer.pc = "Thread"
    /\ IF peer.threadId = ""
       THEN /\ peer' = [peer EXCEPT !.pc = "Completion",
                                    !.thread = [id |-> "new2", messages |-> <<>>]]
            /\ UNCHANGED trace
       ELSE \E ok \in BOOLEAN :
            /\ trace' = Append(trace, Ev("peer.getthread", peer.threadId, 0, ok))
            /\ peer' = IF ok
                       THEN [peer EXCEPT !.pc = "Completion",
                                 !.thread = [id |-> peer.threadId,
                                             messages |-> db[peer.threadId]]]
                       ELSE PeerFails(peer, "get thread")
    /\ UNCHANGED <<prompt, req, pc, thread, db, messages, response, cursor, loops,
                   usage, result, ret, usageSum, cancelled, odd, tool>>

\* The Completion of the second request, taken as one step (it fails, or
\* returns a final text), then thread.Messages = response.Messages and
\* StoreThread.
P_Completion ==
    /\ peer.pc = "Completion"
    /\ \E res \in {CompletionErr("provider"),
                    CompletionOk(TrimSpace(TxtPadded), NominalUsage)} :
         IF ~StoreReached(res)
         THEN /\ peer' = PeerFails([peer EXCEPT !.result = res], res.err)
              /\ UNCHANGED <<db, trace>>
         ELSE LET th == [peer.thread EXCEPT !.messages = res.messages] IN
              \E ok \in BOOLEAN :
                /\ trace' = Append(trace, Ev("peer.store", th.id, 0, ok))
                /\ IF ~StoreFailed(ok)
                   THEN /\ db' = [db EXCEPT ![StoreKey(th)] = th.messages]
                        /\ peer' = [peer EXCEPT !.pc = "Finish", !.thread = th,
                                                !.result = res]
                   ELSE /\ peer' = PeerFails([peer EXCEPT !.thread = th,
                                                          !.result = res],
                                             "store thread")
                        /\ UNCHANGED db
    /\ UNCHANGED <<prompt, req, pc, thread, messages, response, cursor, loops,
                   usage, result, ret, usageSum, cancelled, odd, tool>>

\* The rest of PostMessage for the second request: the returned message.
P_Finish ==
    /\ peer.pc = "Finish"
    /\ peer' = [peer EXCEPT !.pc = "Done", !.ret =
                   IF Len(peer.thread.messages) = 0
                   THEN [NoRet EXCEPT !.outcome = "panic"]
                   ELSE [NoRet EXCEPT !.outcome = "ok", !.completion =
                            peer.thread.messages[Len(peer.thread.messages)].Content]]
    /\ UNCHANGED <<prompt, req, pc, thread, db, messages, response, cursor, loops,
                   usage, result, ret, trace, usageSum, cancelled, odd, tool>>

\* The steps of the two goroutines, in any interleaving.  The first request
\* runs the anthropic adapter: the tools of the vertex adapter are kept on the
\* client, outside PostMessage.
NextTwo ==
    \/ PM_Verify
    \/ PM_Thread
    \/ A_Invoke
    \/ A_Tools
    \/ A_Invoke2
    \/ PM_Finish
    \/ P_Thread
    \/ P_Completion
    \/ P_Finish

\* Two PostMessage requests served at the same time.
SpecTwo == InitTwo /\ [][NextTwo]_vars

NextOrCancel ==
    \/ Next
    \/ Cancel

\* One request whose context may be cancelled while the completion runs.
SpecCancel == Init /\ [][NextOrCancel]_vars

\* ------------------------------------------ the get_sources handler alone
\* ------------------------------------------- the vertex adapter called alone
\* A request for the vertex model that passes the integrity checks.
VertexPrompt ==
    [collectionOk |-> TRUE, hasModelOps |-> TRUE, hasRetrievalOps |-> TRUE,
     modelId |-> "vertex", threadId |-> ""]

\* The threads a caller of Completion may hold: a new one, a stored one.
CallerThreads ==
    {NewThread,
     [id |-> "t1", userId |-> UserId, collectionId |-> StoredCollection,
      messages |-> PriorThread]}

\* req *llm.CompletionRequest: the requests a caller may pass for the thread
\* th, with no message, with the thread's messages, or with the prompt
\* appended to them.
CallerRequests(th) ==
    {[Messages |-> ms, Tools |-> {"get_sources"}] :
        ms \in {<<>>, th.messages, Append(th.messages, LMsg(RoleUser, TxtPrompt))}}

\* A caller is about to call Completion of the vertex adapter.
InitVertexCall ==
    /\ prompt = VertexPrompt
    /\ peer = PeerIdle
    /\ tool = ToolIdle
    /\ thread \in CallerThreads
    /\ req \in CallerRequests(thread)
    /\ pc = "Completion"
    /\ db = StoredThreads
    /\ messages = <<>>
    /\ response = NoReply
    /\ cursor = 0
    /\ loops = 0
    /\ usage = <<0, 0>>
    /\ result = NoResult
    /\ ret = NoRet
    /\ trace = <<>>
    /\ usageSum = <<0, 0>>
    /\ cancelled = FALSE
    /\ odd = 0

\* Completion of the vertex adapter, called with the request the caller holds.
V_Completion ==
    /\ pc = "Completion"
    /\ UNCHANGED <<tool, peer>>
    /\ prompt.modelId = "vertex"
    /\ VertexCompletion(req)
    /\ UNCHANGED <<prompt, cursor, loops, cancelled>>

NextVertexCall ==
    \/ V_Completion
    \/ V_CallTool
    \/ V_Send2
    \/ PM_Finish

\* One call of the vertex adapter with any request of CallerRequests; the
\* caller treats what Completion returns as PostMessage does.
SpecVertexCall == InitVertexCall /\ [][NextVertexCall]_vars

\* The request whose tool definition the handler belongs to: one that passes
\* the integrity checks.
ValidPrompt ==
    [collectionOk |-> TRUE, hasModelOps |-> TRUE, hasRetrievalOps |-> TRUE,
     modelId |-> "anthropic", threadId |-> ""]

\* The adapter calls get_sources, with or without a string "prompt" argument.
InitGetSources ==
    /\ MainInit({ValidPrompt})
    /\ tool \in {[ToolIdle EXCEPT !.pc = "call", !.hasPrompt = hp] : hp \in BOOLEAN}

\* query, ok := parameters["prompt"].(string); if !ok
PromptMissing(t) == ~t.hasPrompt

SearchFailedNever(ok) == FALSE

\* response, err := service.Search.Search(ctx, ...); if err != nil
SearchFailed(ok) == ~ok

\* The Search call and the usage record that follows it: one
\* InsertModelUsage call, whose error is dropped.
GS_Search ==
    /\ tool.pc = "call"
    /\ ~PromptMissing(tool)
    /\ \E searchOk \in BOOLEAN :
         IF SearchFailed(searchOk)
         THEN tool' = [tool EXCEPT !.pc = "searched",
                                   !.searches = tool.searches + 1]
         ELSE \E hs \in HitLists, usageOk \in BOOLEAN :
              tool' = [tool EXCEPT !.pc = "searched", !.searchOk = searchOk,
                                   !.usageOk = usageOk, !.found = hs,
                                   !.searches = tool.searches + 1,
                                   !.usages = tool.usages + 1]
    /\ UNCHANGED mainVars

\* The handler returns: an error, or the sorted results as JSON.
GS_Return ==
    /\ \/ tool.pc = "searched"
       \/ tool.pc = "call" /\ PromptMissing(tool)
    /\ \E out \in GetSourcesCall(tool.hasPrompt, tool.searchOk, tool.usageOk, tool.found) :
         tool' = [tool EXCEPT !.pc = "returned", !.out = out]
    /\ UNCHANGED mainVars

NextGetSources ==
    \/ GS_Search
    \/ GS_Return

\* One call of the get_sources handler, for every result list Search may
\* return.
SpecGetSources == InitGetSources /\ [][NextGetSources]_vars


\* ================================================================ properties
IsProvider(e) == e.ev = "provider"
IsTool(e) == e.ev = "tool"
IsToolUse(part) == part.type = ContentTypeToolUse
IsText(part) == part.type = ContentTypeText

Anthropic == prompt.modelId = "anthropic"
Vertex == prompt.modelId = "vertex"

\* Index of the latest provider round trip in the trace (0: none yet).
LastProvider ==
    LET S == {i \in DOMAIN trace : IsProvider(trace[i])} IN
    IF S = {} THEN 0 ELSE CHOOSE i \in S : \A j \in S : j <= i

\* The latest provider round trip was answered, and `response` is its reply.
Answered == LastProvider > 0 /\ trace[LastProvider].ok

\* The tool executions since the latest provider round trip, in order.
ToolsSince == SelectSeq(SubSeq(trace, LastProvider + 1, Len(trace)), IsTool)

\* The tool invocations of a turn, in provider order.
Invocations(c) == SelectSeq(c, IsToolUse)

\* The invocations of a turn that precede its first unregistered tool name.
RECURSIVE BeforeUnknown(_)
BeforeUnknown(invs) ==
    IF invs = <<>> \/ Head(invs).name \notin {"get_sources"} THEN <<>>
    ELSE <<Head(invs)>> \o BeforeUnknown(Tail(invs))

\* The adapter took the turn in `response` as a tool-call turn.
TookAsToolTurn ==
    /\ Answered
    /\ \/ Anthropic /\ \E i \in DOMAIN messages :
                          messages[i] = Msg(RoleAssistant, response.content)
                    /\ response.stop = ContentTypeToolUse
       \/ Vertex /\ ProviderCalls = 1 /\ response.cands = 1
                 /\ Len(response.content) > 0 /\ IsToolUse(response.content[1])

\* The invocations of the turn the adapter gets to: every tool_use part
\* (anthropic), the first part (vertex).
Reachable(c) == IF Anthropic THEN Invocations(c) ELSE Invocations(<<c[1]>>)

Ids(es) == [i \in DOMAIN es |-> es[i].id]

Over == pc \in {"Finish", "Done"}

\* C1 (as claimed): a provider that answers every round trip with a tool-call
\* turn makes Completion fail with ToolLoopExceeded after exactly 6 tool round
\* trips, and no assistant message is returned.
C1_ToolLoopExceeded ==
    (Anthropic /\ Over /\ Answered /\ loops = LoopBound
       /\ response.stop = ContentTypeToolUse /\ Invocations(response.content) # <<>>)
    => /\ result.kind = "err"
       /\ result.err = "tool loop exceeded"
       /\ StoreCalls = 0

InitialDb == [t1 |-> PriorThread, t2 |-> PriorThread, new |-> <<>>, new2 |-> <<>>]

\* A turn with neither text nor tool calls.
EmptyTurn(r) ==
    \/ r.cands = 0
    \/ /\ Invocations(r.content) = <<>>
       /\ \A i \in DOMAIN r.content : ~(IsText(r.content[i]) /\ r.content[i].text # <<>>)

\* The anthropic loop ended on its bound with the model still asking for tools.
LoopBoundHit ==
    Anthropic /\ Answered /\ loops = LoopBound /\ response.stop = ContentTypeToolUse

\* One of the fatal outcomes has happened.
FatalOutcome ==
    \/ ~prompt.collectionOk \/ ~prompt.hasModelOps \/ ~prompt.hasRetrievalOps
    \/ prompt.modelId = "nomodel"
    \/ \E i \in DOMAIN trace : IsProvider(trace[i]) /\ ~trace[i].ok
    \/ \E i \in DOMAIN trace : IsTool(trace[i]) /\ ~trace[i].ok
    \/ result.err = "unknown tool"
    \/ LoopBoundHit
    \/ Over /\ Answered /\ EmptyTurn(response)

\* C2 (as claimed): for every fatal outcome (invalid request, provider error,
\* unknown tool, tool handler error, loop bound exceeded, empty model
\* response) PostMessage makes no StoreThread call and the persisted thread
\* is unchanged.
C2_NoStoreOnFatalOutcome ==
    FatalOutcome => StoreCalls = 0 /\ db = InitialDb

C4_HandlerErrorAborts ==
    \A i \in DOMAIN trace :
        (IsTool(trace[i]) /\ ~trace[i].ok) =>
            /\ i = Len(trace)
            /\ pc = "Done"
            /\ result.kind = "err"
            /\ result.err = "tool"
            /\ ret = [outcome |-> "error", err |-> "tool", completion |-> <<>>,
                     sources |-> <<>>]

\* C4 witness: the first of two tools of a turn failed, the second was not run.
C4_Witness ==
    /\ Len(trace) > 0
    /\ IsTool(trace[Len(trace)]) /\ ~trace[Len(trace)].ok
    /\ Len(ToolsSince) = 1
    /\ Len(Invocations(response.content)) = 2
    /\ ~cancelled


\* C5 (as claimed): at every point the cumulative usage equals the sum of the
\* usage deltas of all provider round trips made so far, the round trip of a
\* turn that leads to a failure or to the empty-response branch included.
C5_UsageIsSumOfDeltas == usage = usageSum

\* A turn that is one plain text part and, for anthropic, does not stop for
\* a tool.
PlainTextTurn(r) ==
    /\ r.cands = 1
    /\ r.stop # ContentTypeToolUse
    /\ Len(r.content) = 1
    /\ IsText(r.content[1])

FirstTurnPlainText == ProviderCalls = 1 /\ Answered /\ PlainTextTurn(response)

C7_EmptyTurnIsError ==
    (pc = "Done" /\ Answered /\ EmptyTurn(response)) => ret.outcome = "error"

\* C8 (as claimed): once the request is cancelled before the completion has
\* succeeded, the completion does not end in success and no StoreThread call
\* is made.
C8_CancelledNeverStores ==
    cancelled => StoreCalls = 0 /\ ret.outcome # "ok"

\* The adapter has finished the tools of the turn in `response` and is about
\* to make the next provider round trip.
TurnDone ==
    \/ pc = "V_Send2"
    \/ pc = "A_Tools" /\ cursor > Len(response.content)

\* C9 (as claimed): every tool invocation of a provider turn is executed,
\* whichever adapter is used: the number of tools executed for a turn is the
\* number of tool calls in it.
C9_EveryInvocationExecuted ==
    TurnDone => Len(ToolsSince) = Len(Invocations(response.content))

\* The result message m answers invocation inv: by id (anthropic), by
\* function name (vertex, whose calls carry no id).
Answers(m, inv) ==
    /\ Len(m.content) = 1
    /\ m.content[1].type = ContentTypeToolResult
    /\ IF Anthropic THEN m.content[1].id = inv.id ELSE m.content[1].name = inv.name

\* C10 (as claimed): the tool-result messages appended for a tool-call turn
\* follow the message recording the turn, in the order of the turn's
\* invocations, one result per invocation.
C10_ResultsPairWithInvocations ==
    TurnDone =>
        LET invs == Invocations(response.content)
            k == Len(invs)
            n == Len(messages)
        IN /\ n > k
           /\ messages[n - k].role \in {RoleAssistant, RoleModel}
           /\ \A j \in 1..k : Answers(messages[n - k + j], invs[j])

\* The adapter is between two provider round trips, working on the tools of
\* the turn in `response`.
InTurn == pc \in {"A_Tools", "V_CallTool", "V_Send2"}

\* The last Len(invs) messages of the history answer invs, one by one and in
\* order, and follow the message that records the turn.
ResultsAppended(invs) ==
    LET k == Len(invs)
        n == Len(messages)
    IN /\ n > k
       /\ messages[n - k].role \in {RoleAssistant, RoleModel}
       /\ \A j \in 1..k : Answers(messages[n - k + j], invs[j])

\* The tools run so far for the turn are its first invocations, in provider
\* order, each has returned, and the result of each is in the history.
ToolsRanInOrder ==
    LET invs == Reachable(response.content)
        k == Len(ToolsSince)
    IN /\ k <= Len(invs)
       /\ \A j \in 1..k : ToolsSince[j].id = invs[j].id /\ ToolsSince[j].ok
       /\ ResultsAppended(SubSeq(invs, 1, k))

\* C11: the steps of a completion are strictly sequential: the tool handlers
\* of a turn run one after another in the order the provider listed the tool
\* calls, the result of each is appended before the next one starts, and a
\* step that starts the next provider round trip is taken only when every tool
\* the adapter runs for the turn has returned and its result is in the history.
C11_StepsAreSequential ==
    /\ [](InTurn => ToolsRanInOrder)
    /\ [][(ProviderCalls' > ProviderCalls /\ ProviderCalls > 0)
            => /\ ToolsRanInOrder
               /\ Len(ToolsSince) = Len(Reachable(response.content))]_vars

\* C11 witness: anthropic made its second round trip after the two tools of
\* the first turn had run.
C11_Witness ==
    /\ Anthropic
    /\ ProviderCalls = 2
    /\ ToolCalls = 2
    /\ \A i \in DOMAIN trace : IsTool(trace[i]) => trace[i].ok

\* The history of the request: the thread as loaded, then the user's prompt.
RequestHistory == Append(InitialDb[thread.id], LMsg(RoleUser, TxtPrompt))

\* C12 (as claimed): when the completion succeeds, the history it hands back
\* is the request's history followed by the turns generated during the
\* completion: the request's history is an unchanged prefix of it and its
\* last message is the final assistant message.
C12_HistoryHandedBack ==
    result.kind = "ok" =>
        LET h == result.messages
            o == RequestHistory
        IN /\ Len(h) > Len(o)
           /\ SubSeq(h, 1, Len(o)) = o
           /\ h[Len(h)] = LMsg(RoleAssistant, result.text)

\* The request is malformed: its collection id does not parse, its model
\* options or retrieval options are missing, or its model id is unknown.
InvalidRequest ==
    \/ ~prompt.collectionOk
    \/ ~prompt.hasModelOps
    \/ ~prompt.hasRetrievalOps
    \/ prompt.modelId = "nomodel"

InvalidRequestErrors ==
    {"invalid collection id", "options missing", "retrieval options missing",
     "model not found"}

\* C13: a malformed request is rejected before the loop starts: the only
\* external call made is VerifyFunding, so no thread is loaded, no provider or
\* tool is called and nothing is persisted; the request ends with an error,
\* which is one of the invalid-request errors once VerifyFunding has passed.
C13_InvalidRequestRejected ==
    InvalidRequest =>
        /\ \A i \in DOMAIN trace : trace[i].ev = "auth"
        /\ thread = NoThread
        /\ db = InitialDb
        /\ pc \in {"PostMessage", "Done"}
        /\ pc = "Done" =>
             /\ ret.outcome = "error"
             /\ trace[1].ok => ret.err \in InvalidRequestErrors

\* C13 witness: a request that is valid but for its unknown model id, and
\* names a stored thread, was rejected.
C13_Witness ==
    /\ prompt.collectionOk /\ prompt.hasModelOps /\ prompt.hasRetrievalOps
    /\ prompt.modelId = "nomodel"
    /\ prompt.threadId = "t1"
    /\ pc = "Done"
    /\ ret.err = "model not found"

\* C14: a provider call that fails, the first one or one inside the tool
\* loop, aborts the completion at once: the failed call is the last call made
\* (no later provider call, tool execution or StoreThread), the error is
\* returned and the persisted thread is unchanged.
C14_ProviderFailureAborts ==
    \A i \in DOMAIN trace :
        (IsProvider(trace[i]) /\ ~trace[i].ok) =>
            /\ i = Len(trace)
            /\ pc = "Done"
            /\ result.kind = "err"
            /\ result.err = "provider"
            /\ ret.outcome = "error"
            /\ ret.err = "provider"
            /\ StoreCalls = 0
            /\ db = InitialDb

\* C14 witness: the provider call that follows a tool execution failed.
C14_Witness ==
    /\ Len(trace) > 1
    /\ IsProvider(trace[Len(trace)]) /\ ~trace[Len(trace)].ok
    /\ IsTool(trace[Len(trace) - 1])
    /\ ProviderCalls = 2

\* StoreThread succeeded: PostMessage got past it.
Stored == \E i \in DOMAIN trace : trace[i].ev = "store" /\ trace[i].ok

\* An InsertModelUsage call made after the completion failed.
UsageRecordFailed == \E i \in DOMAIN trace : trace[i].ev = "usage" /\ ~trace[i].ok

\* C15 (as claimed): a failure of the usage-recording call made after the
\* completion does not fail the request: PostMessage still returns the
\* message, with the text the completion ended with.
C15_UsageFailureNotFatal ==
    (pc = "Done" /\ UsageRecordFailed) =>
        /\ ret.outcome = "ok"
        /\ ret.completion = result.text

\* json.Unmarshal of a JSON text into Sources: the results of its "sources"
\* member.
RECURSIVE ParseItems(_)
ParseItems(toks) ==
    IF toks = <<>> THEN <<>>
    ELSE LET o == FirstObject(toks) IN
         <<[id |-> Member(o, "id").v[1], doc |-> Member(o, "doc").v,
            pos |-> Member(o, "pos").v[1]]>>
         \o ParseItems(AfterFirstObject(toks))

ParseSources(json) == ParseItems(ListTokens(json))

\* The results a function response of the vertex history holds.
SourcesOfMap(m) ==
    LET l == m[CHOOSE i \in DOMAIN m : m[i].key = "sources"].val IN
    [i \in DOMAIN l |-> [id |-> l[i].id[1], doc |-> l[i].doc, pos |-> l[i].pos]]

\* The payload of a tool result of the history, parsed again: a JSON string
\* (anthropic) or a function response (vertex).
Reparsed(payload) ==
    IF Vertex THEN SourcesOfMap(payload) ELSE ParseSources(payload)

\* The evidence items the tool results of the history carry, in order.
RECURSIVE ResultItems(_)
ResultItems(ms) ==
    IF ms = <<>> THEN <<>>
    ELSE (IF Len(Head(ms).content) = 1
             /\ Head(ms).content[1].type = ContentTypeToolResult
          THEN Reparsed(Head(ms).content[1].payload) ELSE <<>>)
         \o ResultItems(Tail(ms))

\* The evidence retrieved during the completion.
Retrieved == ResultItems(messages)
RetrievedIds == {Retrieved[i].id : i \in DOMAIN Retrieved}

\* The source returned for chunk id c, if there is one.
SourcesOf(c) == {i \in DOMAIN ret.sources : ret.sources[i].id = c}

\* The document-name lookup of a returned source failed.
LookupFailed(src) ==
    \/ ~IsUuid(src.doc)
    \/ \E i \in DOMAIN trace :
         trace[i].ev = "docname" /\ trace[i].id = src.id /\ ~trace[i].ok

\* C16 (as claimed): when the evidence retrieved holds an item whose document
\* id does not parse, the response is returned without error, every retrieved
\* chunk has its source in the returned list, each source whose lookup failed
\* has an empty name and every other source has its document's name.
C16_LookupFailureKeepsSource ==
    (pc = "Done" /\ Stored /\ \E i \in DOMAIN Retrieved : ~IsUuid(Retrieved[i].doc)) =>
        /\ ret.outcome = "ok"
        /\ \A c \in RetrievedIds : SourcesOf(c) # {}
        /\ Len(ret.sources) = Cardinality(RetrievedIds)
        /\ \A i \in DOMAIN ret.sources :
             ret.sources[i].name =
                 IF LookupFailed(ret.sources[i]) THEN "" ELSE NameOf(ret.sources[i].doc)

\* The handler call returned results, and these are the items of its JSON.
GotSources == tool.pc = "returned" /\ tool.out.ok
SourcesOut == ParseSources(tool.out.json)

\* a comes before b, or may stand next to it, in the claimed order.
InOrder(a, b) == StrLess(a.doc, b.doc) \/ (a.doc = b.doc /\ a.pos <= b.pos)

\* C17: the list get_sources returns is ordered by document id ascending and,
\* within one document, by position ascending (every adjacent pair a, b has
\* a.doc < b.doc, or a.doc = b.doc and a.pos <= b.pos), and it is a
\* permutation of the results Search returned.
C17_GetSourcesOrdered ==
    GotSources =>
        /\ \A i \in 1..(Len(SourcesOut) - 1) : InOrder(SourcesOut[i], SourcesOut[i + 1])
        /\ Len(SourcesOut) = Len(tool.found)
        /\ \E f \in Orderings(Len(tool.found)) :
             \A i \in DOMAIN SourcesOut : SourcesOut[i] = tool.found[f[i]]

\* C17 witness: three results of two documents came back from Search out of
\* order, with a document split by another, and were returned reordered.
C17_Witness ==
    /\ GotSources
    /\ Len(tool.found) = 3
    /\ tool.found[1].doc = tool.found[3].doc
    /\ tool.found[1].doc # tool.found[2].doc
    /\ tool.found[1].pos > tool.found[3].pos
    /\ SourcesOut # tool.found

\* C18 (as claimed): the sort of get_sources is stable: two results with the
\* same document id and the same position keep the relative order Search gave
\* them (the i-th result of Search has chunk id i).
C18_SortIsStable ==
    GotSources =>
        \A i, j \in DOMAIN SourcesOut :
            (i < j /\ SourcesOut[i].doc = SourcesOut[j].doc
                   /\ SourcesOut[i].pos = SourcesOut[j].pos)
            => SourcesOut[i].id < SourcesOut[j].id

\* The completion retrieved evidence and PostMessage got past StoreThread.
AttributionDue == pc = "Done" /\ Stored /\ Retrieved # <<>>

\* C19 (as claimed): the sources returned with the response are the retrieved
\* evidence ordered by document id and then position: evidence {docB, 1},
\* {docA, 2}, {docA, 1} is returned as {docA, 1}, {docA, 2}, {docB, 1}.
C19_AttributedSourcesOrdered ==
    AttributionDue =>
        /\ ret.outcome = "ok"
        /\ \A i \in 1..(Len(ret.sources) - 1) :
             InOrder(ret.sources[i], ret.sources[i + 1])
        /\ \E i, j, k \in DOMAIN ret.sources :
             /\ i < j /\ j < k
             /\ ret.sources[i].doc = DocA /\ ret.sources[i].pos = 1
             /\ ret.sources[j].doc = DocA /\ ret.sources[j].pos = 2
             /\ ret.sources[k].doc = DocB /\ ret.sources[k].pos = 1

\* One chunk id was returned by two retrieval calls of the completion.
RetrievedTwice ==
    \E i, j \in DOMAIN Retrieved : i # j /\ Retrieved[i].id = Retrieved[j].id

\* C20 (as claimed): the list of attributed sources holds each chunk id at
\* most once, and a chunk id that several retrieval calls returned is in it
\* exactly once.
C20_SourcesDeduplicated ==
    /\ \A c \in RetrievedIds : Cardinality(SourcesOf(c)) <= 1
    /\ (pc = "Done" /\ Stored /\ RetrievedTwice) =>
          \A c \in RetrievedIds : Cardinality(SourcesOf(c)) = 1

\* The get_sources calls of the completion that returned evidence.
Retrievals == Cardinality({i \in DOMAIN trace : IsTool(trace[i]) /\ trace[i].ok})

\* C21 (as claimed): the attributed sources cover the evidence of every
\* retrieval call of the completion, not only the last one: after a completion
\* with two or more retrieval calls the response is returned and the chunk ids
\* of its sources are the chunk ids returned by any of the calls.
C21_AttributionCoversAllCalls ==
    (pc = "Done" /\ Stored /\ Retrievals >= 2) =>
        /\ ret.outcome = "ok"
        /\ {ret.sources[i].id : i \in DOMAIN ret.sources} = RetrievedIds

\* The latest reply carries no usage metadata.
NoUsageMetadata == Answered /\ ~response.hasUsage

\* C24: a vendor reply without usage metadata adds zero to both usage fields
\* (the cumulative usage stays the sum of the deltas reported so far) and is
\* processed as any other reply: a first reply whose first part is text ends
\* the completion in success with that text, one whose first part is a
\* function call goes on to the tool, and a final reply with text succeeds.
C24_MissingUsageIsZero ==
    NoUsageMetadata =>
        /\ usage = usageSum
        /\ (Len(response.content) > 0 /\ IsText(response.content[1])) =>
              /\ result.kind = "ok"
              /\ result.text = response.content[1].text
              /\ result.usage = usageSum
        /\ (ProviderCalls = 1 /\ Len(response.content) > 0
              /\ IsToolUse(response.content[1])) =>
              \/ pc = "V_CallTool"
              \/ ToolCalls = 1
              \/ result.err = "unknown tool"

\* C24 witness: vertex answered the tool result with a text reply without
\* usage metadata, after a first reply that reported usage; the completion
\* succeeded with the usage of the first reply.
C24_Witness ==
    /\ Vertex
    /\ ProviderCalls = 2
    /\ NoUsageMetadata
    /\ result.kind = "ok"
    /\ result.usage = <<MaxTok, MaxTok + 1>>

\* The provider round trips of the completion, in order.
RoundTrips == SelectSeq(trace, IsProvider)

\* The messages the datastore held for the thread the prompt names; none for
\* a prompt without thread id.
PriorMessages == IF prompt.threadId = "t1" THEN InitialDb.t1 ELSE <<>>

\* The role an adapter gives a message of the given llm role.
AdapterRole(r) == IF Vertex /\ r = RoleAssistant THEN RoleModel ELSE r

\* The conversation `hist` is the prior thread messages, in order, followed
\* by the user message of the request.
IsInitialHistory(hist) ==
    /\ Len(hist) = Len(PriorMessages) + 1
    /\ \A i \in DOMAIN PriorMessages :
         /\ hist[i].role = AdapterRole(PriorMessages[i].Role)
         /\ hist[i].content = <<TextPart(PriorMessages[i].Content)>>
    /\ hist[Len(hist)] = Msg(RoleUser, <<TextPart(TxtPrompt)>>)

\* C26: the completion starts from the messages of the loaded thread, in
\* order, followed by the new user message as the last one: that is the
\* conversation of the first provider round trip, made with the loop counter
\* at 0 and before any tool has run.  A request without thread id starts from
\* exactly the one user message.
C26_InitialHistory ==
    RoundTrips # <<>> =>
        /\ IsInitialHistory(RoundTrips[1].sent)
        /\ prompt.threadId = "" =>
             RoundTrips[1].sent = <<Msg(RoleUser, <<TextPart(TxtPrompt)>>)>>
        /\ \A i \in DOMAIN trace : IsTool(trace[i]) => i > 1 /\ \E j \in 1..(i - 1) :
             IsProvider(trace[j])
        /\ Len(RoundTrips) = 1 => loops = 0

\* C26 witness: the first round trip of a request on the stored thread has
\* been made, with the two prior messages and the prompt.
C26_Witness ==
    /\ Len(RoundTrips) = 1
    /\ prompt.threadId = "t1"
    /\ Len(RoundTrips[1].sent) = 3
    /\ loops = 0

\* The tools that ran to completion between positions a and b of the trace.
ToolsDoneBetween(a, b) ==
    Cardinality({i \in (a + 1)..(b - 1) : IsTool(trace[i]) /\ trace[i].ok})

IsPrefix(s, t) == Len(s) <= Len(t) /\ SubSeq(t, 1, Len(s)) = s

\* Position in the trace of the latest provider round trip before position i
\* (0: none).
ProviderBefore(i) ==
    LET S == {j \in 1..(i - 1) : IsProvider(trace[j])} IN
    IF S = {} THEN 0 ELSE CHOOSE j \in S : \A k \in S : k <= j

\* The round trip at position i of the trace carried everything the one
\* before it (at position h) carried, then one assistant message for the turn
\* answered, then one tool-result message for every tool that ran in between.
ExtendsPrevious(h, i) ==
    LET before == trace[h].sent
        now == trace[i].sent
    IN /\ IsPrefix(before, now)
       /\ Len(now) = Len(before) + 1 + ToolsDoneBetween(h, i)
       /\ now[Len(before) + 1].role \in {RoleAssistant, RoleModel}
       /\ \A k \in (Len(before) + 2)..Len(now) :
            /\ now[k].role = RoleUser
            /\ Len(now[k].content) = 1
            /\ now[k].content[1].type = ContentTypeToolResult

\* C27: every provider round trip carries the full accumulated conversation,
\* never only what was added since the round trip before: the first carries
\* the initial history, every later one carries all of the one before it
\* followed by the assistant message and the tool results added since, and
\* the adapter's conversation never loses what was sent.  (The trace only
\* grows, so the property of the latest round trip, in every state, is the
\* property of every round trip.)
C27_FullHistorySent ==
    LastProvider > 0 =>
        /\ IF ProviderBefore(LastProvider) = 0
           THEN IsInitialHistory(trace[LastProvider].sent)
           ELSE ExtendsPrevious(ProviderBefore(LastProvider), LastProvider)
        /\ IsPrefix(trace[LastProvider].sent, messages)

\* C27 witness: anthropic made a third round trip on the stored thread; it
\* carried the three initial messages and two tool-call turns with one result
\* each.
C27_Witness ==
    /\ Anthropic
    /\ prompt.threadId = "t1"
    /\ Len(RoundTrips) = 3
    /\ Len(RoundTrips[3].sent) = 7

\* Vertex made its second round trip on the stored thread with the initial
\* messages, the function call and the function response.
VertexSentAll ==
    /\ Vertex
    /\ prompt.threadId = "t1"
    /\ Len(RoundTrips) = 2
    /\ Len(RoundTrips[2].sent) = 5

\* The turn in `response` holds tool calls.
ToolCallTurn == Answered /\ response.cands = 1 /\ Invocations(response.content) # <<>>

\* The messages the adapter appended since the latest provider round trip.
AppendedSince ==
    SubSeq(messages, Len(RoundTrips[Len(RoundTrips)].sent) + 1, Len(messages))

IsAssistantMsg(m) == m.role \in {RoleAssistant, RoleModel}

IsToolResultMsg(m) ==
    m.role = RoleUser /\ Len(m.content) = 1
        /\ m.content[1].type = ContentTypeToolResult

\* The messages appended since the latest round trip are one assistant
\* message holding the part(s) `c`, followed by tool results only, one for
\* every tool that has run since.
RecordedFirst(c) ==
    /\ AppendedSince # <<>>
    /\ AppendedSince[1] = Msg(IF Vertex THEN RoleModel ELSE RoleAssistant, c)
    /\ \A i \in 2..Len(AppendedSince) : IsToolResultMsg(AppendedSince[i])
    /\ Len(AppendedSince) = 1 + Cardinality({i \in DOMAIN ToolsSince : ToolsSince[i].ok})

TakenTurnRecordedFirst ==
    /\ TookAsToolTurn =>
         RecordedFirst(IF Vertex THEN FirstPartOnly(response.content)
                       ELSE response.content)
    /\ (RoundTrips # <<>> /\ ~TookAsToolTurn) =>
         AppendedSince = <<>> /\ ToolsSince = <<>>

\* Completion has been called.
InCompletion == pc \in {"A_Tools", "V_CallTool", "V_Send2"} \/ result.kind # "none"

\* The request as PostMessage built it from the loaded thread and the prompt.
RequestAsBuilt ==
    [Messages |-> PriorMessages \o <<LMsg(RoleUser, TxtPrompt)>>,
     Tools |-> {"get_sources"}]

\* C29: the adapters and the tool handlers never mutate the request: its
\* messages and its tool definitions are, during and after Completion, the
\* ones PostMessage built.  The loaded thread keeps the messages it was
\* loaded with unless the completion succeeded.
C29_RequestAndThreadKept ==
    /\ InCompletion => req = RequestAsBuilt
    /\ (thread.id # "" /\ result.kind # "ok") => thread.messages = PriorMessages

\* C29 witness: a completion on the stored thread failed after two round
\* trips and a tool execution; the request and the loaded thread are as they
\* were.
C29_Witness ==
    /\ prompt.threadId = "t1"
    /\ thread.id = "t1"
    /\ result.kind = "err"
    /\ ProviderCalls = 2
    /\ ToolCalls >= 1
    /\ Len(thread.messages) = 2
    /\ Len(req.Messages) = 3

\* The loop iterations the anthropic adapter has started.
Iterations == loops + (IF pc = "A_Tools" THEN 1 ELSE 0)

\* The bounds on the calls of one completion.
CallsBounded ==
    /\ Anthropic => ProviderCalls <= LoopBound + 1 /\ Iterations <= LoopBound
    /\ Vertex => ProviderCalls <= 2 /\ ToolCalls <= 1

\* C30: every completion terminates, provided each collaborator call returns:
\* the anthropic adapter after at most 7 provider calls and at most 6
\* tool-executing iterations, the vertex adapter after at most 2 provider
\* calls and at most 1 tool execution.
C30_Terminates == []CallsBounded /\ <>(pc = "Done")

\* C30 witness: the anthropic adapter ended after 7 provider calls and 6
\* iterations.
C30_Witness ==
    /\ Anthropic
    /\ pc = "Done"
    /\ ProviderCalls = LoopBound + 1
    /\ loops = LoopBound

\* The result lists the handler produced: for the first call of a completion
\* and for the later ones.
FirstProduced == SortSlice(SearchHits)
LaterProduced == SortSlice(LaterHits)

\* The positions of the tool-result messages in the adapter's conversation.
ResultAt == {i \in DOMAIN messages : IsToolResultMsg(messages[i])}

AnthropicHoldsResults ==
    Anthropic /\ Len(Retrieved) = Len(SearchHits) + Len(LaterHits)

\* The datastore keys of the threads the two requests work on.
MainKey == IF prompt.threadId = "" THEN "new" ELSE prompt.threadId
PeerKey == IF peer.threadId = "" THEN "new2" ELSE peer.threadId

DifferentThreads == MainKey # PeerKey

\* Position in the trace of the event of kind e (0: none).
At(e) ==
    LET S == {i \in DOMAIN trace : trace[i].ev = e} IN
    IF S = {} THEN 0 ELSE CHOOSE i \in S : TRUE

MainStored == At("store") > 0 /\ trace[At("store")].ok
PeerStored == At("peer.store") > 0 /\ trace[At("peer.store")].ok

\* What the first request holds for itself: the request, the loaded thread,
\* the adapter's history, the provider reply, the loop counter, the usage and
\* the results.
MainLocals ==
    <<prompt, req, pc, thread, messages, response, cursor, loops, usage, result, ret>>

\* Each request finds under its key what it stored itself, or what the
\* datastore held before when it stored nothing.
PersistedAsAlone ==
    /\ db[MainKey] = IF MainStored THEN result.messages ELSE InitialDb[MainKey]
    /\ db[PeerKey] = IF PeerStored THEN peer.result.messages ELSE InitialDb[PeerKey]

\* A step of one request leaves alone what the other holds for itself and the
\* other's stored thread.
StepsApart ==
    /\ peer' # peer => UNCHANGED MainLocals /\ db'[MainKey] = db[MainKey]
    /\ peer' = peer => db'[PeerKey] = db[PeerKey]

\* C22: two completions served at the same time for different threads are
\* independent under every interleaving: no step of one changes the history,
\* the loop counter, the usage or any other local of the other, nor the thread
\* the other persists, and each one's persisted thread is the one it would
\* have persisted alone.
C22_DifferentThreadsIndependent ==
    /\ [](DifferentThreads => PersistedAsAlone)
    /\ [][DifferentThreads => StepsApart]_vars

\* C22 witness: the second request loaded t2 after the first provider round
\* trip of the first request on t1 and stored it before the first request
\* stored its own thread; both are over.
C22_Witness ==
    /\ prompt.threadId = "t1" /\ peer.threadId = "t2"
    /\ pc = "Done" /\ peer.pc = "Done"
    /\ MainStored /\ PeerStored
    /\ LastProvider > 1
    /\ \E i \in DOMAIN trace : IsProvider(trace[i]) /\ i < At("peer.getthread")
    /\ At("peer.getthread") < At("peer.store")
    /\ At("peer.store") < At("store")

\* Both requests work on the stored thread t1.
SameThread == MainKey = "t1" /\ PeerKey = "t1"

\* Both requests loaded the thread before either stored it, and both stored.
BothLoadedFirst ==
    /\ MainStored /\ PeerStored
    /\ At("getthread") < At("store") /\ At("getthread") < At("peer.store")
    /\ At("peer.getthread") < At("store") /\ At("peer.getthread") < At("peer.store")

BothOver == pc = "Done" /\ peer.pc = "Done"

\* The history the later of the two StoreThread calls wrote, and the answer
\* of the request that wrote first.
LaterWritten ==
    IF At("store") > At("peer.store") THEN thread.messages ELSE peer.thread.messages
EarlierAnswer ==
    IF At("store") > At("peer.store") THEN peer.result.text ELSE result.text

PeerWroteLast ==
    /\ SameThread /\ BothLoadedFirst /\ BothOver
    /\ At("store") < At("peer.store")

\* Completion has returned to PostMessage without an error.
ReturnedNoError == result.kind \in {"ok", "nil"}

\* C31 (as claimed): Completion never returns a nil response together with a
\* nil error: whenever it returns without error the response and its final
\* message are present, and PostMessage reads the response and the message
\* list without a nil dereference or an index out of range.
C31_NoNilResponse ==
    ReturnedNoError =>
        /\ result.kind = "ok"
        /\ ret.outcome # "panic"

\* C32 (as claimed): below the loop bound the anthropic adapter enters a
\* tool-executing iteration if and only if the provider turn holds at least
\* one tool_use part: a turn with stop reason tool_use and no tool_use part
\* causes no further provider call, and a turn with tool_use parts and another
\* stop reason does not end the completion with the calls unexecuted.
C32_IterationIffToolUsePart ==
    (Anthropic /\ Answered /\ loops < LoopBound) =>
        (TookAsToolTurn <=> Invocations(response.content) # <<>>)

\* A turn with stop reason tool_use and no tool_use part was followed by a
\* provider call with no tool result appended.
CalledAgainWithoutResult ==
    /\ Anthropic
    /\ ProviderBefore(LastProvider) > 0
    /\ Len(trace[LastProvider].sent)
         = Len(trace[ProviderBefore(LastProvider)].sent) + 1

\* A turn with a tool_use part and stop reason end_turn ended the completion
\* in success with no tool executed.
EndedWithCallsUnexecuted ==
    /\ Anthropic /\ Answered
    /\ response.stop = StopEndTurn
    /\ Invocations(response.content) # <<>>
    /\ result.kind = "ok"
    /\ ToolCalls = 0

\* The completion succeeded and the thread was stored.
CompletedAndStored == pc = "Done" /\ result.kind = "ok" /\ MainStored

\* C33 (as claimed): on success the message PostMessage returns is consistent
\* with what it persisted: the returned completion text is the content of the
\* last message of the thread just stored, that last message is the
\* assistant's final message of this completion, and the returned thread id
\* (the id of the thread PostMessage holds) is the id the thread was stored
\* under.
C33_ReturnedMatchesStored ==
    CompletedAndStored =>
        LET stored == db[trace[At("store")].name] IN
        /\ ret.outcome = "ok"
        /\ stored # <<>>
        /\ stored[Len(stored)] = LMsg(RoleAssistant, result.text)
        /\ ret.completion = stored[Len(stored)].Content
        /\ trace[At("store")].name = thread.id

\* The StoreThread call of the request failed.
StoreThreadFailed == At("store") > 0 /\ ~trace[At("store")].ok

\* C34: if StoreThread fails after a successful completion, PostMessage
\* returns that error and no message, and makes no further call; a completion
\* text is returned to the caller only when the updated thread was persisted.
C34_StoreFailureReturnsError ==
    /\ StoreThreadFailed =>
         /\ result.kind = "ok"
         /\ pc = "Done"
         /\ ret = [outcome |-> "error", err |-> "store thread", completion |-> <<>>,
                   sources |-> <<>>]
         /\ At("store") = Len(trace)
         /\ db = InitialDb
    /\ ret.completion # <<>> => MainStored

\* C34 witness: after a tool round trip the completion succeeded with a
\* final text, and StoreThread failed.
C34_Witness ==
    /\ StoreThreadFailed
    /\ ProviderCalls = 2
    /\ ToolCalls = 1
    /\ result.kind = "ok"
    /\ result.text # <<>>
    /\ ret.outcome = "error"

\* The GetThread call of the request, if one was made.
GetThreadAt == At("getthread")
NoCallsAfterSelection == ProviderCalls = 0 /\ ToolCalls = 0 /\ StoreCalls = 0
PastThreadSelection == pc \notin {"PostMessage", "Thread"}
GetThreadFailed == GetThreadAt > 0 /\ ~trace[GetThreadAt].ok
InvalidThreadId == PastThreadSelection /\ ret.err = "invalid thread id"

\* C35: thread selection. With an empty thread id no GetThread call is made
\* and the thread used is a fresh one bound to the caller and the request's
\* collection; with a thread id the thread is loaded by a GetThread call made
\* for the caller; an unparsable id or a failed GetThread returns an error
\* with no provider call, tool call or StoreThread call made.
C35_ThreadSelection ==
    /\ ~ThreadIdGiven(prompt) =>
         /\ GetThreadAt = 0
         /\ thread # NoThread =>
              /\ thread.id = "new"
              /\ thread.userId = UserId
              /\ thread.collectionId = CollectionId
              /\ StoreCalls = 0 => thread.messages = <<>>
    /\ ThreadIdGiven(prompt) =>
         /\ thread # NoThread =>
              /\ GetThreadAt > 0
              /\ trace[GetThreadAt] = GetThreadCall(UserId, prompt.threadId, TRUE)
              /\ thread.id = prompt.threadId
              /\ thread.userId = UserId
              /\ StoreCalls = 0 => thread.messages = InitialDb[prompt.threadId]
         /\ GetThreadFailed =>
              /\ GetThreadAt = Len(trace)
              /\ pc = "Done"
              /\ ret.outcome = "error" /\ ret.err = "get thread"
              /\ thread = NoThread
         /\ (PastThreadSelection /\ ~ThreadIdParses(prompt.threadId)) =>
              /\ ret.outcome = "error"
              /\ GetThreadAt = 0
              /\ thread = NoThread
    /\ thread = NoThread => NoCallsAfterSelection

\* C35 witness: a request without a thread id reached the provider with a
\* fresh thread.
C35_Witness ==
    /\ ~ThreadIdGiven(prompt)
    /\ thread.id = "new"
    /\ ProviderCalls > 0

\* The VerifyFunding call of the request failed.
VerifyFundingFailed == At("auth") > 0 /\ ~trace[At("auth")].ok

\* C36: if VerifyFunding fails, PostMessage returns the error before anything
\* else happens: the failed check is the only call of the request (no thread
\* load, provider call, retrieval, usage record or StoreThread), no thread
\* and no request were built, and the stored threads are untouched.
C36_FundingFailureFirst ==
    VerifyFundingFailed =>
        /\ trace = <<Ev("auth", "", 0, FALSE)>>
        /\ pc = "Done"
        /\ ret = [outcome |-> "error", err |-> "funding", completion |-> <<>>,
                  sources |-> <<>>]
        /\ thread = NoThread
        /\ req = NoRequest
        /\ result = NoResult
        /\ usageSum = <<0, 0>>
        /\ db = InitialDb

\* C36 witness: a request that is valid and names a stored thread was
\* rejected by the funding check.
C36_Witness ==
    /\ VerifyFundingFailed
    /\ IntegrityError(prompt) = ""
    /\ prompt.threadId = "t1"
    /\ ret.err = "funding"

\* The get_sources handler has returned.
HandlerReturned == tool.pc = "returned"

\* C37: the get_sources handler fails without side effects: without a string
\* "prompt" argument it returns an error and Search is never called; when
\* Search fails it returns an error and no InsertModelUsage call is made; one
\* InsertModelUsage call is made for a successful Search, and Search is called
\* at most once.
C37_GetSourcesFailsClean ==
    /\ tool.searches <= 1
    /\ ~tool.hasPrompt =>
         /\ tool.searches = 0 /\ tool.usages = 0
         /\ HandlerReturned => tool.out = ToolErr
    /\ (tool.searches = 1 /\ ~tool.searchOk) =>
         /\ tool.usages = 0
         /\ HandlerReturned => tool.out = ToolErr
    /\ tool.searchOk =>
         /\ tool.searches = 1 /\ tool.usages = 1
         /\ HandlerReturned => tool.out.ok

\* C37 witness: the handler was called with a prompt, Search failed, and the
\* handler returned the error.
C37_Witness ==
    /\ HandlerReturned
    /\ tool.hasPrompt
    /\ tool.searches = 1
    /\ ~tool.searchOk
    /\ tool.out = ToolErr

\* Completion has returned to its caller, or the request is over.
CompletionCalled == pc # "Completion"

\* C38: the vertex adapter rejects a request with no message: Completion
\* returns the error "no messages" with no provider call (and no tool call)
\* made, and the caller stores nothing.
C38_EmptyRequestRejected ==
    (Len(req.Messages) = 0 /\ CompletionCalled) =>
        /\ result = CompletionErr("no messages")
        /\ trace = <<>>
        /\ pc = "Done"
        /\ ret.outcome = "error" /\ ret.err = "no messages"
        /\ db = InitialDb

\* C38 witness: Completion was called with an empty message list and
\* returned the error.
C38_Witness ==
    /\ req.Messages = <<>>
    /\ CompletionCalled
    /\ result.err = "no messages"

====
